---- MODULE Spec2Model ----
(***************************************************************************)
(* Model of the mood decision / learning engine (class AdvancedMoodAI) of  *)
(* the MOOD adaptive art system, together with the learning log of the     *)
(* older MoodDecisionEngine.                                               *)
(*                                                                         *)
(* Numbers.  JavaScript doubles that the engine keeps in [0,1]             *)
(* (engagement, successRate, confidence, probabilities) are fixed-point    *)
(* integers in units of 1/Scale.  The value NaN is the IEEE not-a-number   *)
(* that 0/0 produces; every arithmetic helper below propagates it the way  *)
(* JavaScript does, and every comparison with it is false.                 *)
(***************************************************************************)
EXTENDS Integers, Sequences, FiniteSets, TLC

Scale == 1000
NaN == -1000000

\* ------------------------------------------------------------------------
\* Bounds of the model (not program constants)
\* ------------------------------------------------------------------------
MaxStarts == 3        \* startABTest calls (test ids issued)
MaxCompleted == 1     \* completed A/B tests after which no new test starts
MaxFree == 2          \* calls of a test whose arguments the caller varies
MaxOutcomes == 2      \* recordOutcome calls in the learning specification
MaxInserts == 1055    \* recordOutcome calls in the history specification
MaxLog == 103         \* recordMoodOutcome calls in the history specification
MaxTunes == 4         \* recordOutcome calls in the repetition specification
MaxFill == 60         \* recordOutcome calls of the pruning run
MaxDecays == 20       \* recordOutcome calls of the decay run
MaxTime == 12         \* the emergency run ends at this time (units of 10 s)
MaxTimers == 3        \* pending emergency timers
MaxStoreSessions == 52  \* the store's sessionCount in the store specification

\* ------------------------------------------------------------------------
\* Program constants
\* ------------------------------------------------------------------------
EmergencyDelay == 3    \* setTimeout(..., 30000), in units of 10 seconds
ABThreshold == 50     \* sessionCount >= 50 auto-completes the test
HistoryCap == 1000    \* learningDatabase.length > 1000 triggers eviction
HistoryKeep == 800    \* slice(-800)
PatternCap == 50      \* patterns.length > 50 triggers pruning
PatternKeep == 40     \* slice(0, 40)
learningDataLength == 100   \* MoodDecisionEngine log capacity

moodNames == <<"Energetic", "Social", "Contemplative", "Mysterious", "Peaceful">>
MoodSet == {moodNames[i] : i \in 1..Len(moodNames)}

\* moodMappings[m]: the index of mood m (1-based here), 0 where JavaScript
\* yields undefined.
moodMappings(m) ==
  IF m \in MoodSet THEN CHOOSE i \in 1..Len(moodNames) : moodNames[i] = m ELSE 0

\* ------------------------------------------------------------------------
\* Arithmetic helpers
\* ------------------------------------------------------------------------
IsNaN(x) == x = NaN
Abs(x) == IF x < 0 THEN -x ELSE x
\* Math.min / Math.max: NaN when either argument is NaN
MathMin(a, b) == IF IsNaN(a) \/ IsNaN(b) THEN NaN ELSE IF a < b THEN a ELSE b
MathMax(a, b) == IF IsNaN(a) \/ IsNaN(b) THEN NaN ELSE IF a > b THEN a ELSE b
\* a + b and a - b on doubles
Plus(a, b) == IF IsNaN(a) \/ IsNaN(b) THEN NaN ELSE a + b
Minus(a, b) == IF IsNaN(a) \/ IsNaN(b) THEN NaN ELSE a - b
\* x * (n/d) for a literal factor n/d such as 0.1 or 0.05
Times(x, n, d) == IF IsNaN(x) THEN NaN ELSE (x * n) \div d
\* a / b on doubles that are not negative; 0/0 is NaN
Div(a, b) ==
  IF IsNaN(a) \/ IsNaN(b) \/ b = 0 THEN NaN ELSE (a * Scale) \div b
\* a > b on doubles: false when either side is NaN
Gt(a, b) == ~IsNaN(a) /\ ~IsNaN(b) /\ a > b

RECURSIVE Sum(_)
\* results.reduce((sum, r) => sum + r, 0)
Sum(s) == IF s = <<>> THEN 0 ELSE Head(s) + Sum(Tail(s))

Last(s) == s[Len(s)]

\* ------------------------------------------------------------------------
\* Contexts (ContextData)
\* ------------------------------------------------------------------------
NoVision == [present |-> FALSE, peopleCount |-> 0, avgMovement |-> 0]
NoAudio == [present |-> FALSE, energy |-> 0, volumeLevel |-> 0, musical |-> 0]

Vision(people, movement) ==
  [present |-> TRUE, peopleCount |-> people, avgMovement |-> movement]
Audio(energy, volume, musical) ==
  [present |-> TRUE, energy |-> energy, volumeLevel |-> volume, musical |-> musical]
Context(vision, audio, timeOfDay, dayOfWeek) ==
  [vision |-> vision, audio |-> audio,
   environmental |-> [timeOfDay |-> timeOfDay, dayOfWeek |-> dayOfWeek,
                      weather |-> "sunny"]]

\* ------------------------------------------------------------------------
\* Patterns
\* ------------------------------------------------------------------------
\* a JavaScript value found in a context or in a condition
Undefined == [kind |-> "undefined", num |-> 0, hi |-> 0, str |-> ""]
NumV(n) == [kind |-> "number", num |-> n, hi |-> 0, str |-> ""]
StrV(t) == [kind |-> "string", num |-> 0, hi |-> 0, str |-> t]
RangeV(lo, hi) == [kind |-> "array", num |-> lo, hi |-> hi, str |-> ""]

Cond(parameter, operator, value) ==
  [parameter |-> parameter, operator |-> operator, value |-> value]

initializePatterns ==
  << [id |-> "morning_calm", created |-> 0, type |-> "temporal",
      conditions |-> << Cond("environmental.timeOfDay", "=", StrV("morning")) >>,
      recommendedMood |-> "Peaceful", confidence |-> 700, successRate |-> 800,
      lastUpdated |-> 0],
     [id |-> "busy_social", created |-> 0, type |-> "crowd",
      conditions |-> << Cond("vision.peopleCount", ">", NumV(15)) >>,
      recommendedMood |-> "Social", confidence |-> 800, successRate |-> 750,
      lastUpdated |-> 0],
     [id |-> "high_energy_music", created |-> 0, type |-> "audio",
      conditions |-> << Cond("audio.energy", ">", NumV(700)),
                        Cond("audio.musical", ">", NumV(600)) >>,
      recommendedMood |-> "Energetic", confidence |-> 900, successRate |-> 850,
      lastUpdated |-> 0] >>

\* ------------------------------------------------------------------------
\* Sample learning data loaded by the constructor
\* ------------------------------------------------------------------------
SampleRecord(index, time, people, energy, mood, engagement) ==
  [context |-> Context(Vision(people, energy),
                       Audio(energy, (energy * 8) \div 10,
                             IF energy > 600 THEN 800 ELSE 200),
                       time, IF index % 2 = 0 THEN "weekday" ELSE "weekend"),
   appliedMood |-> mood,
   outcome |-> [engagement |-> engagement],
   timestamp |-> 0 - index,
   serial |-> index + 1]

generateSampleLearningData ==
  << SampleRecord(0, "morning", 5, 300, "Peaceful", 800),
     SampleRecord(1, "afternoon", 15, 600, "Social", 750),
     SampleRecord(2, "evening", 25, 800, "Energetic", 900),
     SampleRecord(3, "morning", 8, 200, "Contemplative", 850),
     SampleRecord(4, "evening", 12, 500, "Mysterious", 700) >>

\* ------------------------------------------------------------------------
\* State
\* ------------------------------------------------------------------------
VARIABLES
  learningDatabase,  \* History Store: sequence of learning records
  patterns,          \* Pattern Store: sequence of patterns
  weights,           \* Predictor: accumulated adjustment of each output column
  abTests,           \* A/B history: sequence of ABTestResult
  currentABTest,     \* the active test, NoTest when there is none
  nextTestId,        \* source of fresh test ids
  clock,             \* Date.now()
  inserted,          \* number of records ever pushed on learningDatabase
  learningData,      \* MoodDecisionEngine: its learning log
  feed,              \* the caller's last (mood, engagement) for the active test
  abTesting,         \* the store's abTesting slice: currentTest and testHistory
  currentMood,       \* the store's currentMood.name
  aiPrediction,      \* the store's aiPrediction.currentPrediction, or null
  emergencyActive,   \* the store's emergencyActive flag
  timers,            \* pending setTimeout callbacks: the time each is due
  exported,          \* the blob the caller holds from its last exportLearningData
  lastOp             \* the last call made on the engine, and what it returned

vars == << learningDatabase, patterns, weights, abTests, currentABTest,
           nextTestId, clock, inserted, learningData, feed, abTesting,
           currentMood, aiPrediction, emergencyActive, timers,
           exported, lastOp >>

\* the store's own state, and the part of it the A/B actions leave alone
storeVars == << abTesting, currentMood, aiPrediction, emergencyActive, timers >>
moodVars == << currentMood, aiPrediction, emergencyActive, timers >>

NoTest ==
  [active |-> FALSE, testId |-> 0, moodA |-> "", moodB |-> "", context |-> "",
   sessionCount |-> 0, resultsA |-> <<>>, resultsB |-> <<>>]

NoPrediction == [recommendedMood |-> "", confidence |-> 0]

NoContext == Context(NoVision, NoAudio, "", "")

\* the store's aiPrediction.currentPrediction when it is null
NullPrediction == [present |-> FALSE, recommendedMood |-> "", confidence |-> 0]

\* the store's currentTest when it is null
NoStoreTest ==
  [present |-> FALSE, id |-> 0, moodA |-> "", moodB |-> "", context |-> "",
   sessionCount |-> 0, isActive |-> FALSE]

\* a testHistory entry that is undefined
UndefinedResult ==
  [testId |-> 0, moodA |-> "", moodB |-> "", context |-> "",
   winnerMood |-> "undefined", confidenceLevel |-> 0, engagementDiff |-> 0,
   sampleSize |-> 0]

\* no blob exported yet
NoBlob ==
  [present |-> FALSE, patterns |-> <<>>, live |-> <<>>,
   learningDatabase |-> <<>>, abTests |-> <<>>]

NoOp ==
  [op |-> "new", testId |-> 0, mood |-> "", engagement |-> 0, threw |-> FALSE,
   context |-> NoContext, completed |-> NoTest, evicted |-> 0,
   prediction |-> NoPrediction, pending |-> 0, other |-> NoContext,
   similarity |-> 0, blob |-> "none", conditions |-> <<>>, matched |-> FALSE,
   stoppedAt |-> 0]

Init ==
  /\ learningDatabase = generateSampleLearningData
  /\ patterns = initializePatterns
  /\ weights = [i \in 1..Len(moodNames) |-> 0]
  /\ abTests = <<>>
  /\ currentABTest = NoTest
  /\ nextTestId = 1
  /\ clock = 1
  /\ inserted = Len(generateSampleLearningData)
  /\ learningData = <<>>
  /\ feed = << "", 0 >>
  /\ abTesting = [currentTest |-> NoStoreTest, testHistory |-> <<>>]
  /\ currentMood = "Contemplative"
  /\ aiPrediction = [currentPrediction |-> NullPrediction]
  /\ emergencyActive = FALSE
  /\ timers = <<>>
  /\ exported = NoBlob
  /\ lastOp = NoOp

\* ------------------------------------------------------------------------
\* Exported blobs
\* ------------------------------------------------------------------------
\* two pattern records describe the same object: the id of a learned pattern
\* carries its creation time
SamePattern(p, q) == p.id = q.id /\ p.created = q.created

\* The blob the caller holds after the engine has changed pattern objects
\* in place.  [...this.patterns] copies the array, not the objects: a
\* pattern of the blob that is still an object of the Pattern Store
\* (live) shows the change.  touched is the Pattern Store after the
\* in-place changes, kept the array the call leaves in the store.
AliasedBlob(blob, touched, kept) ==
  [blob EXCEPT
     !.patterns =
        [i \in 1..Len(blob.patterns) |->
           IF blob.live[i]
              /\ \E j \in DOMAIN touched : SamePattern(touched[j], blob.patterns[i])
           THEN touched[CHOOSE j \in DOMAIN touched :
                          SamePattern(touched[j], blob.patterns[i])]
           ELSE blob.patterns[i]],
     !.live =
        [i \in 1..Len(blob.live) |->
           /\ blob.live[i]
           /\ \E j \in DOMAIN kept : SamePattern(kept[j], blob.patterns[i])]]

\* the blob after the store's array was replaced by one of other objects
UnsharedBlob(blob) ==
  [blob EXCEPT !.live = [i \in 1..Len(blob.live) |-> FALSE]]

\* ------------------------------------------------------------------------
\* A/B testing
\* ------------------------------------------------------------------------
\* results.reduce(...) / results.length as an exact fraction; 0/0 is NaN
Avg(results) ==
  [nan |-> Len(results) = 0, num |-> Sum(results), den |-> Len(results)]

\* avgA > avgB
AvgGt(a, b) == ~a.nan /\ ~b.nan /\ a.num * b.den > b.num * a.den

\* Math.abs(avgA - avgB)
AvgAbsDiff(a, b) ==
  IF a.nan \/ b.nan THEN NaN
  ELSE Abs(a.num * b.den - b.num * a.den) \div (a.den * b.den)

\* Math.abs(avgA - avgB) / Math.max(avgA, avgB); 0/0 is NaN
AvgRelDiff(a, b) ==
  IF a.nan \/ b.nan THEN NaN
  ELSE LET hi == IF AvgGt(b, a) THEN b ELSE a
           lo == IF AvgGt(b, a) THEN a ELSE b
       IN IF hi.num = 0 THEN NaN
          ELSE (Abs(a.num * b.den - b.num * a.den) * Scale) \div (hi.num * lo.den)

\* a plausible slip: the arms swapped in the conditional
WinnerMoodSwapped(test, avgA, avgB) ==
  IF AvgGt(avgA, avgB) THEN test.moodB ELSE test.moodA
\* winnerMood: avgA > avgB ? moodA : moodB
WinnerMood(test, avgA, avgB) ==
  IF AvgGt(avgA, avgB) THEN test.moodA ELSE test.moodB

\* the ABTestResult that completeABTest builds from the active test
ABResult(test) ==
  LET avgA == Avg(test.resultsA)
      avgB == Avg(test.resultsB)
  IN [testId |-> test.testId, moodA |-> test.moodA, moodB |-> test.moodB,
      context |-> test.context,
      winnerMood |-> WinnerMood(test, avgA, avgB),
      confidenceLevel |-> AvgRelDiff(avgA, avgB),
      engagementDiff |-> AvgAbsDiff(avgA, avgB),
      sampleSize |-> test.sessionCount]

\* updatePatternsFromABTest: boost the winner's patterns, reduce the loser's
updatePatternsFromABTest(ps, result) ==
  LET loser == IF result.moodA = result.winnerMood THEN result.moodB
               ELSE result.moodA
      boost(p) == [p EXCEPT
                     !.successRate =
                        MathMin(Scale, Plus(p.successRate,
                                            Times(result.confidenceLevel, 1, 10))),
                     !.confidence = MathMin(Scale, Plus(p.confidence, 50))]
      reduce(p) == [p EXCEPT
                      !.successRate =
                         MathMax(100, Minus(p.successRate,
                                            Times(result.confidenceLevel, 1, 20)))]
      step1 == [i \in 1..Len(ps) |->
                  IF ps[i].recommendedMood = result.winnerMood
                  THEN boost(ps[i]) ELSE ps[i]]
  IN [i \in 1..Len(ps) |->
        IF ps[i].recommendedMood = loser THEN reduce(step1[i]) ELSE step1[i]]

\* startABTest(moodA, moodB, context): installs a new active test
startABTest(moodA, moodB, context) ==
  /\ nextTestId <= MaxStarts
  /\ Len(abTests) < MaxCompleted
  /\ currentABTest' =
       [active |-> TRUE, testId |-> nextTestId, moodA |-> moodA,
        moodB |-> moodB, context |-> context, sessionCount |-> 0,
        resultsA |-> <<>>, resultsB |-> <<>>]
  /\ nextTestId' = nextTestId + 1
  /\ feed' = << "", 0 >>
  /\ lastOp' = [NoOp EXCEPT !.op = "startABTest", !.testId = nextTestId]
  /\ UNCHANGED << learningDatabase, patterns, weights, abTests, clock,
                  inserted, learningData, exported >>

\* a plausible slip: the test id is not compared
TestMatchesAnyId(test, testId) == test.active
\* the guard of recordABTestResult: the call is for the active test
TestMatches(test, testId) == test.active /\ test.testId = testId

\* the test after the sample of one call has been counted and filed
AddSample(test, mood, engagement) ==
  [test EXCEPT
     !.sessionCount = @ + 1,
     !.resultsA = IF mood = test.moodA THEN Append(@, engagement) ELSE @,
     !.resultsB = IF mood # test.moodA /\ mood = test.moodB
                  THEN Append(@, engagement) ELSE @]

\* a plausible slip: off by one in the threshold comparison
ReachedThresholdLate(test) == test.sessionCount > ABThreshold
\* the auto-completion test of recordABTestResult
ReachedThreshold(test) == test.sessionCount >= ABThreshold

\* recordABTestResult(testId, mood, engagement), completeABTest included
recordABTestResult(testId, mood, engagement) ==
  /\ testId \in 1..(nextTestId - 1)
  /\ (currentABTest.active /\ currentABTest.sessionCount >= MaxFree)
        => << mood, engagement >> = feed
  /\ IF ~TestMatches(currentABTest, testId)
     THEN /\ lastOp' = [NoOp EXCEPT !.op = "recordABTestResult",
                          !.testId = testId, !.mood = mood,
                          !.engagement = engagement]
          /\ UNCHANGED << currentABTest, abTests, patterns, feed, exported >>
     ELSE LET test == AddSample(currentABTest, mood, engagement)
              boosted == updatePatternsFromABTest(patterns, ABResult(test))
          IN /\ feed' = << mood, engagement >>
             /\ IF ReachedThreshold(test)
                THEN /\ abTests' = Append(abTests, ABResult(test))
                     /\ currentABTest' = NoTest
                     /\ patterns' = boosted
                     /\ exported' = AliasedBlob(exported, boosted, boosted)
                     /\ lastOp' = [NoOp EXCEPT !.op = "recordABTestResult",
                                     !.testId = testId, !.mood = mood,
                                     !.engagement = engagement,
                                     !.completed = test]
                ELSE /\ currentABTest' = test
                     /\ lastOp' = [NoOp EXCEPT !.op = "recordABTestResult",
                                     !.testId = testId, !.mood = mood,
                                     !.engagement = engagement]
                     /\ UNCHANGED << abTests, patterns, exported >>
  /\ UNCHANGED << learningDatabase, weights, nextTestId, clock, inserted,
                  learningData >>

\* resetLearning(): clears the stores, builds a fresh network and the
\* initial patterns; the active test is not touched
resetLearning ==
  /\ lastOp.op # "resetLearning"
  /\ learningDatabase' = <<>>
  /\ patterns' = initializePatterns
  /\ abTests' = <<>>
  /\ weights' = [i \in 1..Len(moodNames) |-> 0]
  /\ exported' = UnsharedBlob(exported)
  /\ lastOp' = [NoOp EXCEPT !.op = "resetLearning"]
  /\ UNCHANGED << currentABTest, nextTestId, clock, inserted, learningData, feed >>

\* the moods and engagements callers use in the A/B specification
ABPairs == { << "Energetic", "Social" >>, << "Social", "Social" >> }
ABMoods == { "Energetic", "Social" }
ABEngagements == { 0, 900 }

StartABTest ==
  /\ \E pair \in ABPairs : startABTest(pair[1], pair[2], "lobby")
  /\ UNCHANGED storeVars
RecordABTestResult ==
  /\ \E testId \in 1..MaxStarts, mood \in ABMoods, engagement \in ABEngagements :
       recordABTestResult(testId, mood, engagement)
  /\ UNCHANGED storeVars
ResetLearning == resetLearning /\ UNCHANGED storeVars

NextAB == StartABTest \/ RecordABTestResult \/ ResetLearning
SpecAB == Init /\ [][NextAB]_vars

\* ------------------------------------------------------------------------
\* The store's A/B testing actions (useMoodStore), which drive the engine
\* ------------------------------------------------------------------------
\* getABTestResults(): a copy of the A/B history
getABTestResults == abTests

\* store.startABTest(moodA, moodB, context)
StoreStartABTest ==
  \E pair \in ABPairs :
    /\ startABTest(pair[1], pair[2], "lobby")
    /\ abTesting' =
         [abTesting EXCEPT
            !.currentTest =
               [present |-> TRUE, id |-> nextTestId, moodA |-> pair[1],
                moodB |-> pair[2], context |-> "lobby", sessionCount |-> 0,
                isActive |-> TRUE]]
    /\ UNCHANGED moodVars

\* store.recordABTestResult(mood, engagement): forwards the call with the
\* id of the store's current test and counts it
StoreRecordABTestResult ==
  /\ abTesting.currentTest.present
  /\ abTesting.currentTest.isActive
  /\ abTesting.currentTest.sessionCount < MaxStoreSessions
  /\ \E mood \in ABMoods, engagement \in ABEngagements :
       recordABTestResult(abTesting.currentTest.id, mood, engagement)
  /\ abTesting' = [abTesting EXCEPT !.currentTest.sessionCount = @ + 1]
  /\ UNCHANGED moodVars

\* store.completeCurrentABTest(): reads the engine's A/B history and files
\* its last entry (undefined when the history is empty) in testHistory;
\* no engine method is called that completes the engine's test
CompleteCurrentABTest ==
  /\ abTesting.currentTest.present
  /\ LET results == getABTestResults
         latestResult == IF results = <<>> THEN UndefinedResult
                         ELSE Last(results)
     IN /\ abTesting' =
             [currentTest |-> NoStoreTest,
              testHistory |-> Append(abTesting.testHistory, latestResult)]
        /\ lastOp' = [NoOp EXCEPT !.op = "completeCurrentABTest",
                        !.testId = abTesting.currentTest.id,
                        !.threw = results = <<>>]
  /\ UNCHANGED << learningDatabase, patterns, weights, abTests, currentABTest,
                  nextTestId, clock, inserted, learningData, feed, exported,
                  moodVars >>

NextStore ==
  StoreStartABTest \/ StoreRecordABTestResult \/ CompleteCurrentABTest
SpecStore == Init /\ [][NextStore]_vars

\* ------------------------------------------------------------------------
\* Pattern matching
\* ------------------------------------------------------------------------
\* getContextValue: dotted-path lookup; a missing key, or a path through a
\* null vision/audio object, is undefined
getContextValue(context, parameter) ==
  CASE parameter = "vision.peopleCount" ->
         IF context.vision.present
         THEN NumV(context.vision.peopleCount) ELSE Undefined
    [] parameter = "vision.avgMovement" ->
         IF context.vision.present
         THEN NumV(context.vision.avgMovement) ELSE Undefined
    [] parameter = "audio.energy" ->
         IF context.audio.present THEN NumV(context.audio.energy) ELSE Undefined
    [] parameter = "audio.volumeLevel" ->
         IF context.audio.present
         THEN NumV(context.audio.volumeLevel) ELSE Undefined
    [] parameter = "audio.musical" ->
         IF context.audio.present THEN NumV(context.audio.musical) ELSE Undefined
    [] parameter = "environmental.timeOfDay" ->
         StrV(context.environmental.timeOfDay)
    [] parameter = "environmental.dayOfWeek" ->
         StrV(context.environmental.dayOfWeek)
    [] parameter = "environmental.weather" ->
         StrV(context.environmental.weather)
    [] OTHER -> Undefined

\* String(value) for the values a context holds
StringOf(value) ==
  CASE value.kind = "undefined" -> "undefined"
    [] value.kind = "string" -> value.str
    [] OTHER -> "#"

\* s.includes(sub), for the strings that occur in the model
Substrings ==
  { << "undefined", "fine" >>, << "undefined", "def" >>,
    << "morning", "morn" >>, << "evening", "even" >> }
Includes(s, sub) == sub = "" \/ s = sub \/ << s, sub >> \in Substrings

\* one case of the switch in patternMatches
conditionHolds(value, condition) ==
  LET cv == condition.value
  IN CASE condition.operator = ">" ->
            value.kind = "number" /\ cv.kind = "number" /\ value.num > cv.num
       [] condition.operator = "<" ->
            value.kind = "number" /\ cv.kind = "number" /\ value.num < cv.num
       [] condition.operator = "=" ->
            /\ value.kind = cv.kind
            /\ value.kind # "array"
            /\ value.num = cv.num
            /\ value.str = cv.str
       [] condition.operator = "between" ->
            /\ value.kind = "number"
            /\ cv.kind = "array"
            /\ value.num >= cv.num
            /\ value.num <= cv.hi
       [] condition.operator = "contains" ->
            cv.kind = "string" /\ Includes(StringOf(value), cv.str)
       [] OTHER -> FALSE

\* patternMatches: conditions.every(...)
patternMatches(pattern, context) ==
  \A i \in DOMAIN pattern.conditions :
    conditionHolds(getContextValue(context, pattern.conditions[i].parameter),
                   pattern.conditions[i])

\* a plausible slip: the test ignores the mood the patterns recommend
hasMatchingPatternAnyMood(ps, context, mood) ==
  \E i \in DOMAIN ps : patternMatches(ps[i], context)
\* hasMatchingPattern
hasMatchingPattern(ps, context, mood) ==
  \E i \in DOMAIN ps :
    ps[i].recommendedMood = mood /\ patternMatches(ps[i], context)

\* extractConditions: salient features of the context
extractConditions(context) ==
  LET people ==
        IF ~context.vision.present THEN <<>>
        ELSE IF context.vision.peopleCount > 20
             THEN << Cond("vision.peopleCount", ">", NumV(15)) >>
             ELSE IF context.vision.peopleCount < 5
                  THEN << Cond("vision.peopleCount", "<", NumV(8)) >>
                  ELSE <<>>
      energy ==
        IF ~context.audio.present THEN <<>>
        ELSE IF context.audio.energy > 700
             THEN << Cond("audio.energy", ">", NumV(600)) >>
             ELSE IF context.audio.energy < 300
                  THEN << Cond("audio.energy", "<", NumV(400)) >>
                  ELSE <<>>
  IN people \o energy \o
     << Cond("environmental.timeOfDay", "=",
             StrV(context.environmental.timeOfDay)) >>

\* the comparator of the pruning sort:
\* b.successRate - a.successRate || b.lastUpdated - a.lastUpdated
PatternBefore(a, b) ==
  LET bySuccess == Minus(b.successRate, a.successRate)
      cmp == IF IsNaN(bySuccess) \/ bySuccess = 0
             THEN b.lastUpdated - a.lastUpdated ELSE bySuccess
  IN cmp < 0

RECURSIVE InsertPattern(_, _)
InsertPattern(sorted, p) ==
  IF sorted = <<>> THEN << p >>
  ELSE IF PatternBefore(p, Head(sorted))
       THEN << p >> \o sorted
       ELSE << Head(sorted) >> \o InsertPattern(Tail(sorted), p)

RECURSIVE SortPatterns(_)
\* patterns.sort(...): stable, so a pattern moves in front of another only
\* when the comparator puts it strictly before
SortPatterns(ps) ==
  IF ps = <<>> THEN <<>>
  ELSE InsertPattern(SortPatterns(SubSeq(ps, 1, Len(ps) - 1)), Last(ps))

\* createNewPattern: push, then prune to the 40 best once over 50
createNewPattern(ps, context, mood, engagement, now) ==
  LET pushed == Append(ps,
                  [id |-> "learned", created |-> now, type |-> "hybrid",
                   conditions |-> extractConditions(context),
                   recommendedMood |-> mood, confidence |-> 600,
                   successRate |-> engagement, lastUpdated |-> now])
  IN IF Len(pushed) > PatternCap
     THEN SubSeq(SortPatterns(pushed), 1, PatternKeep)
     ELSE pushed

\* a plausible slip: the old value not damped by (1 - alpha)
EmaUndamped(successRate, engagement) ==
  IF IsNaN(successRate) THEN NaN ELSE successRate + engagement \div 10
\* successRate = (1 - alpha) * successRate + alpha * engagement, alpha = 0.1
Ema(successRate, engagement) ==
  IF IsNaN(successRate) THEN NaN ELSE (9 * successRate + engagement) \div 10

\* relevantPatterns.forEach(...): the patterns of the applied mood that
\* match the context, changed in place
updateRelevantPatterns(ps, context, appliedMood, engagement, now) ==
  [i \in 1..Len(ps) |->
     IF ps[i].recommendedMood = appliedMood /\ patternMatches(ps[i], context)
     THEN [ps[i] EXCEPT !.successRate = Ema(@, engagement),
                        !.lastUpdated = now]
     ELSE ps[i]]

\* updatePatterns
updatePatterns(ps, context, appliedMood, engagement, now) ==
  LET updated == updateRelevantPatterns(ps, context, appliedMood, engagement, now)
  IN IF engagement > 800 /\ ~hasMatchingPattern(updated, context, appliedMood)
     THEN createNewPattern(updated, context, appliedMood, engagement, now)
     ELSE updated

\* ------------------------------------------------------------------------
\* History Store and similarity retrieval
\* ------------------------------------------------------------------------
\* a plausible slip: only the first context's channel is tested
BothPresentFirstOnly(channel1, channel2) == channel1.present
\* context1.vision && context2.vision (and the same for audio)
BothPresent(channel1, channel2) == channel1.present /\ channel2.present

\* calculateContextSimilarity
calculateContextSimilarity(context1, context2) ==
  LET hasVision == BothPresent(context1.vision, context2.vision)
      hasAudio == BothPresent(context1.audio, context2.audio)
      peopleCountSim ==
        Scale - (Abs(context1.vision.peopleCount - context2.vision.peopleCount)
                 * Scale) \div 50
      movementSim ==
        Scale - Abs(context1.vision.avgMovement - context2.vision.avgMovement)
      energySim == Scale - Abs(context1.audio.energy - context2.audio.energy)
      volumeSim ==
        Scale - Abs(context1.audio.volumeLevel - context2.audio.volumeLevel)
      timeMatch == IF context1.environmental.timeOfDay
                      = context2.environmental.timeOfDay THEN 1 ELSE 0
      dayMatch == IF context1.environmental.dayOfWeek
                     = context2.environmental.dayOfWeek THEN 1 ELSE 0
      similarity ==
        (IF hasVision THEN ((peopleCountSim + movementSim) * 4) \div 10 ELSE 0)
        + (IF hasAudio THEN ((energySim + volumeSim) * 3) \div 10 ELSE 0)
        + (timeMatch + dayMatch) * 150
      factors == (IF hasVision THEN 400 ELSE 0) + (IF hasAudio THEN 300 ELSE 0)
                 + 300
  IN (similarity * Scale) \div factors

RECURSIVE TopSimilar(_, _)
\* .sort((a, b) => b.similarity - a.similarity).slice(0, k): the stable sort
\* keeps equally similar sessions in their order, so the result is the
\* earliest most similar session, then the same of the rest
TopSimilar(sessions, k) ==
  IF k = 0 \/ sessions = <<>> THEN <<>>
  ELSE LET best == CHOOSE i \in DOMAIN sessions :
                     /\ \A j \in DOMAIN sessions :
                          sessions[j].similarity <= sessions[i].similarity
                     /\ \A j \in 1..(i - 1) :
                          sessions[j].similarity < sessions[i].similarity
       IN << sessions[best] >>
          \o TopSimilar(SubSeq(sessions, 1, best - 1)
                        \o SubSeq(sessions, best + 1, Len(sessions)), k - 1)

\* findSimilarContexts(context, threshold)
findSimilarContexts(db, context, threshold) ==
  LET scored == [i \in 1..Len(db) |->
                   [appliedMood |-> db[i].appliedMood,
                    engagement |-> db[i].outcome.engagement,
                    similarity |->
                      calculateContextSimilarity(context, db[i].context)]]
      IsSimilar(session) == session.similarity >= threshold
  IN TopSimilar(SelectSeq(scored, IsSimilar), 10)

\* a plausible slip: .sort applied to this.learningDatabase itself, which
\* reorders the History Store by similarity to the context
HistorySortedInPlace(db, context) ==
  LET scored == [i \in 1..Len(db) |->
                   [index |-> i,
                    similarity |->
                      calculateContextSimilarity(context, db[i].context)]]
      sorted == TopSimilar(scored, Len(db))
  IN [k \in 1..Len(db) |-> db[sorted[k].index]]
\* The History Store after findSimilarContexts has run on it: .map builds a
\* new array of new session objects, and .filter, .sort and .slice work on
\* that array, so the store keeps its records and their order.
HistoryAfterFind(db, context) == db

Uniform == [i \in 1..Len(moodNames) |-> 200]

RECURSIVE SumOver(_, _)
\* the sum of f[i] for i in the finite set of indices
SumOver(f, indices) ==
  IF indices = {} THEN 0
  ELSE LET i == CHOOSE j \in indices : TRUE
       IN f[i] + SumOver(f, indices \ {i})

\* a plausible slip: off by one in the minimum sample count
TooFewSimilarBelowTwo(similarContexts) == Len(similarContexts) < 2
\* similarContexts.length < 3: too few records to learn from
TooFewSimilar(similarContexts) == Len(similarContexts) < 3

\* applyHistoricalLearning
applyHistoricalLearning(db, context) ==
  LET similarContexts == findSimilarContexts(db, context, 800)
      engagements == [j \in 1..Len(similarContexts) |->
                        similarContexts[j].engagement]
      ofMood(i) == {j \in 1..Len(similarContexts) :
                      moodMappings(similarContexts[j].appliedMood) = i}
      probabilities ==
        [i \in 1..Len(moodNames) |->
           IF ofMood(i) # {}
           THEN SumOver(engagements, ofMood(i)) \div Cardinality(ofMood(i))
           ELSE 200]
      total == SumOver(probabilities, 1..Len(moodNames))
  IN IF TooFewSimilar(similarContexts)
     THEN [moodProbabilities |-> Uniform, confidence |-> 100]
     ELSE [moodProbabilities |->
             IF total > 0
             THEN [i \in 1..Len(moodNames) |-> (probabilities[i] * Scale) \div total]
             ELSE Uniform,
           confidence |-> MathMin(Scale, Len(similarContexts) * 100)]

RECURSIVE SumVotes(_, _, _)
\* the votes of the matched patterns for mood index i:
\* successRate * confidence, added up as doubles
SumVotes(matched, i, acc) ==
  IF matched = <<>> THEN acc
  ELSE SumVotes(Tail(matched), i,
         IF moodMappings(Head(matched).recommendedMood) = i
         THEN Plus(acc, Times(Head(matched).successRate,
                              Head(matched).confidence, Scale))
         ELSE acc)

RECURSIVE SumDoubles(_, _)
SumDoubles(f, n) == IF n = 0 THEN 0 ELSE Plus(SumDoubles(f, n - 1), f[n])

\* a plausible slip: the guard written as total !== 0
CanNormaliseNonZero(total) == total # 0
\* total > 0, the guard of the normalisation in applyPatternRecognition
CanNormalise(total) == Gt(total, 0)

\* applyPatternRecognition
applyPatternRecognition(ps, context) ==
  LET Matches(pattern) == patternMatches(pattern, context)
      matchedPatterns == SelectSeq(ps, Matches)
      weightedVotes == [i \in 1..Len(moodNames) |->
                          SumVotes(matchedPatterns, i, 0)]
      total == SumDoubles(weightedVotes, Len(moodNames))
  IN IF Len(matchedPatterns) = 0
     THEN [moodProbabilities |-> Uniform, confidence |-> 100]
     ELSE [moodProbabilities |->
             IF CanNormalise(total)
             THEN [i \in 1..Len(moodNames) |-> Div(weightedVotes[i], total)]
             ELSE Uniform,
           confidence |-> MathMin(Scale, Len(matchedPatterns) * 200)]

\* applyTemporalContext: the fixed nudges per mood
applyTemporalContext(context) ==
  LET morning == context.environmental.timeOfDay = "morning"
      evening == context.environmental.timeOfDay = "evening"
      weekend == context.environmental.dayOfWeek = "weekend"
  IN << (IF evening THEN 200 ELSE 0) + (IF weekend THEN 100 ELSE 0),
        (IF evening THEN 150 ELSE 0) + (IF weekend THEN 150 ELSE 0),
        (IF morning THEN 100 ELSE 0),
        0,
        (IF morning THEN 200 ELSE 0) >>

\* combinepredictions: confidence-weighted average of the four signals
combinepredictions(neural, pattern, historical, temporal) ==
  LET wNeural == 400
      wPattern == (300 * pattern.confidence) \div Scale
      wHistorical == (200 * historical.confidence) \div Scale
      wTemporal == 100
      totalWeight == wNeural + wPattern + wHistorical + wTemporal
      combined(i) ==
        Plus(Plus(Times(neural[i], wNeural, 1),
                  Times(pattern.moodProbabilities[i], wPattern, 1)),
             Plus(Times(historical.moodProbabilities[i], wHistorical, 1),
                  Times(temporal[i], wTemporal, 1)))
  IN [i \in 1..Len(moodNames) |->
        IF IsNaN(combined(i)) THEN NaN ELSE combined(i) \div totalWeight]

\* the head of sortedPredictions: the first mood of highest probability
\* (the sort is stable)
ArgMax(ensemble) ==
  CHOOSE i \in DOMAIN ensemble :
    /\ \A j \in DOMAIN ensemble : ensemble[j] <= ensemble[i]
    /\ \A j \in 1..(i - 1) : ensemble[j] < ensemble[i]

\* predictOptimalMood over the stores ps and db; nnOutputs is what the
\* network returns for the context
predictOptimalMood(ps, db, context, nnOutputs) ==
  LET ensemblePrediction ==
        combinepredictions(nnOutputs, applyPatternRecognition(ps, context),
                           applyHistoricalLearning(db, context),
                           applyTemporalContext(context))
      top == ArgMax(ensemblePrediction)
  IN [recommendedMood |-> moodNames[top],
      confidence |-> ensemblePrediction[top]]

\* ------------------------------------------------------------------------
\* Predictor
\* ------------------------------------------------------------------------
\* train: every output whose error exceeds 0.1 has its column of output
\* weights moved by learningRate * error * prediction.  All weights of a
\* column move by the same amount, so one number per column records the
\* trained state (in units of learningRate / Scale^2).
train(w, predictions, expectedOutputs) ==
  [i \in 1..Len(moodNames) |->
     LET error == expectedOutputs[i] - predictions[i]
     IN IF Abs(error) > 100 THEN w[i] + error * predictions[i] ELSE w[i]]

\* ------------------------------------------------------------------------
\* Learning loop
\* ------------------------------------------------------------------------
\* a plausible slip: slice(0, 800), which keeps the oldest records
EvictHistoryHead(db) ==
  IF Len(db) > HistoryCap THEN SubSeq(db, 1, HistoryKeep) ELSE db
\* a plausible slip: the newest record kept with the oldest 799
EvictHistoryGap(db) ==
  IF Len(db) > HistoryCap
  THEN SubSeq(db, 1, HistoryKeep - 1) \o << Last(db) >>
  ELSE db
\* the learningDatabase after a push: cut back to the last 800 once over 1000
EvictHistory(db) ==
  IF Len(db) > HistoryCap
  THEN SubSeq(db, Len(db) - HistoryKeep + 1, Len(db))
  ELSE db

\* this.learningDatabase.push({context, appliedMood, outcome, timestamp})
pushOutcome(context, appliedMood, engagement) ==
  Append(learningDatabase,
         [context |-> context, appliedMood |-> appliedMood,
          outcome |-> [engagement |-> engagement],
          timestamp |-> clock, serial |-> inserted + 1])

\* the training target: zeros, the applied mood's slot set to the engagement
targetOutputs(appliedMood, engagement) ==
  [i \in 1..Len(moodNames) |->
     IF i = moodMappings(appliedMood) THEN engagement ELSE 0]

\* recordOutcome(context, appliedMood, outcome); predictions is what the
\* network returns for the context
recordOutcome(context, appliedMood, engagement, predictions) ==
  LET pushed == pushOutcome(context, appliedMood, engagement)
  IN /\ learningDatabase' = EvictHistory(pushed)
     /\ weights' = train(weights, predictions,
                         targetOutputs(appliedMood, engagement))
     /\ patterns' = updatePatterns(patterns, context, appliedMood, engagement,
                                   clock)
     /\ exported' =
          AliasedBlob(exported,
                      updateRelevantPatterns(patterns, context, appliedMood,
                                             engagement, clock),
                      updatePatterns(patterns, context, appliedMood, engagement,
                                     clock))
     /\ inserted' = inserted + 1
     /\ clock' = clock + 1
     /\ lastOp' = [NoOp EXCEPT !.op = "recordOutcome", !.mood = appliedMood,
                     !.engagement = engagement, !.context = context,
                     !.evicted = Len(pushed) - Len(EvictHistory(pushed))]
     /\ UNCHANGED << abTests, currentABTest, nextTestId, learningData, feed >>

\* a plausible slip: the test written as data.patterns.length
TruthyIfNotEmpty(array) == array # <<>>
\* if (data.patterns): an array is truthy, an empty one too
Truthy(array) == TRUE

\* importLearningData(data): each array that is present replaces the store
\* by a copy of the array; own tells that data is the blob the caller holds
\* from the last export
importLearningData(data, own) ==
  /\ patterns' = IF data.hasPatterns /\ Truthy(data.patterns)
                 THEN data.patterns ELSE patterns
  /\ exported' = IF ~(data.hasPatterns /\ Truthy(data.patterns)) THEN exported
                 ELSE IF own
                      THEN [exported EXCEPT
                              !.live = [i \in 1..Len(exported.live) |-> TRUE]]
                      ELSE UnsharedBlob(exported)
  /\ learningDatabase' =
       IF data.hasLearningDatabase /\ Truthy(data.learningDatabase)
       THEN data.learningDatabase ELSE learningDatabase
  /\ abTests' = IF data.hasAbTests /\ Truthy(data.abTests)
                THEN data.abTests ELSE abTests
  /\ lastOp' = [NoOp EXCEPT !.op = "importLearningData",
                  !.blob = IF own THEN "held" ELSE "other"]
  /\ UNCHANGED << weights, currentABTest, nextTestId, clock, inserted,
                  learningData, feed >>

\* exportLearningData(): copies of the three arrays
exportLearningData ==
  [hasPatterns |-> TRUE, patterns |-> patterns,
   hasLearningDatabase |-> TRUE, learningDatabase |-> learningDatabase,
   hasAbTests |-> TRUE, abTests |-> abTests]

\* MoodDecisionEngine.recordMoodOutcome: push, then drop the oldest entry
\* once over learningDataLength
recordMoodOutcome(context, appliedMood, audienceResponse) ==
  LET pushed == Append(learningData,
                  [context |-> context, appliedMood |-> appliedMood,
                   audienceResponse |-> audienceResponse,
                   serial |-> IF learningData = <<>> THEN 1
                              ELSE Last(learningData).serial + 1])
  IN /\ learningData' = IF Len(pushed) > learningDataLength
                        THEN Tail(pushed) ELSE pushed
     /\ lastOp' = [NoOp EXCEPT !.op = "recordMoodOutcome", !.mood = appliedMood,
                     !.engagement = audienceResponse, !.context = context,
                     !.evicted = IF Len(pushed) > learningDataLength THEN 1 ELSE 0]
     /\ UNCHANGED << learningDatabase, patterns, weights, abTests,
                     currentABTest, nextTestId, clock, inserted, feed, exported >>

\* ------------------------------------------------------------------------
\* Inputs of the learning specification
\* ------------------------------------------------------------------------
ctxOffline == Context(NoVision, NoAudio, "night", "weekday")
ctxMorning == Context(Vision(5, 300), Audio(300, 240, 200), "morning", "weekday")
ctxParty == Context(Vision(25, 800), Audio(800, 640, 800), "evening", "weekend")
\* a context that resembles none of the others: the bulk runs use it
ctxBulk == Context(NoVision, NoAudio, "afternoon", "weekend")
Contexts == { ctxOffline, ctxMorning, ctxParty }
OutcomeContexts == { ctxOffline, ctxMorning }

AppliedMoods == { "Peaceful", "Bogus" }
Engagements == { 300, 900 }

\* what the network can return: its weights start random and its outputs
\* are sigmoids, so any vector of values in [0,1]
NNOutputs ==
  { << 0, 0, 0, 0, 0 >>, << 1000, 1000, 1000, 1000, 1000 >>,
    << 900, 400, 300, 200, 100 >> }
\* the one of them that training is exercised with
TrainOutputs == { << 900, 400, 300, 200, 100 >> }

\* a test that completed with every sample in arm A: avgB is 0/0
OneArmTest ==
  [active |-> TRUE, testId |-> 1, moodA |-> "Energetic", moodB |-> "Social",
   context |-> "lobby", sessionCount |-> ABThreshold,
   resultsA |-> [i \in 1..ABThreshold |-> 900], resultsB |-> <<>>]

\* a record of the kind the bulk run inserts
BulkRecord(k) ==
  [context |-> ctxBulk, appliedMood |-> "Peaceful",
   outcome |-> [engagement |-> 100], timestamp |-> k, serial |-> k]

\* blobs a caller may import: the export of a fresh engine, the export of an
\* engine whose only A/B test had one empty arm, empty arrays, and a backup
\* that holds more records than the History Store's cap
FreshBlob ==
  [hasPatterns |-> TRUE, patterns |-> initializePatterns,
   hasLearningDatabase |-> TRUE, learningDatabase |-> generateSampleLearningData,
   hasAbTests |-> TRUE, abTests |-> <<>>]
OneArmBlob ==
  [hasPatterns |-> TRUE,
   patterns |-> updatePatternsFromABTest(initializePatterns, ABResult(OneArmTest)),
   hasLearningDatabase |-> FALSE, learningDatabase |-> <<>>,
   hasAbTests |-> TRUE, abTests |-> << ABResult(OneArmTest) >>]
EmptyBlob ==
  [hasPatterns |-> TRUE, patterns |-> <<>>,
   hasLearningDatabase |-> TRUE, learningDatabase |-> <<>>,
   hasAbTests |-> TRUE, abTests |-> <<>>]
OversizeBlob ==
  [hasPatterns |-> FALSE, patterns |-> <<>>,
   hasLearningDatabase |-> TRUE,
   learningDatabase |-> [k \in 1..(HistoryCap + 1) |-> BulkRecord(k)],
   hasAbTests |-> FALSE, abTests |-> <<>>]
ImportBlobs == { FreshBlob, OneArmBlob, EmptyBlob }

\* a plausible slip: recordOutcome awaits between its updates, so that
\* other callbacks run while a call is in progress
IdleOrAwaiting == TRUE
\* No call is in progress.  recordOutcome is synchronous (it has no await),
\* and JavaScript runs a callback to completion before it starts another.
Idle == lastOp.pending = 0

RecordOutcome ==
  /\ clock <= MaxOutcomes
  /\ UNCHANGED storeVars
  /\ \E context \in OutcomeContexts, appliedMood \in AppliedMoods,
        engagement \in Engagements, predictions \in TrainOutputs :
       recordOutcome(context, appliedMood, engagement, predictions)

PredictOptimalMood ==
  \E context \in Contexts, nnOutputs \in NNOutputs :
    /\ Idle
    /\ lastOp' = [NoOp EXCEPT
                    !.op = "predictOptimalMood", !.context = context,
                    !.prediction = predictOptimalMood(patterns, learningDatabase,
                                                      context, nnOutputs)]
    /\ learningDatabase' = HistoryAfterFind(learningDatabase, context)
    /\ UNCHANGED << patterns, weights, abTests, currentABTest, nextTestId,
                    clock, inserted, learningData, feed, storeVars, exported >>

ImportLearningData ==
  /\ lastOp.op # "importLearningData"
  /\ \E data \in ImportBlobs : importLearningData(data, FALSE)
  /\ UNCHANGED storeVars

Next == RecordOutcome \/ PredictOptimalMood \/ ImportLearningData \/ ResetLearning
Spec == Init /\ [][Next]_vars

\* ------------------------------------------------------------------------
\* The backup specification: the caller exports the learning data, goes on
\* using the engine, and imports the blob it holds
\* ------------------------------------------------------------------------
BackupOutcome ==
  /\ clock <= MaxOutcomes
  /\ \E context \in OutcomeContexts, engagement \in Engagements,
        predictions \in TrainOutputs :
       recordOutcome(context, "Peaceful", engagement, predictions)
  /\ UNCHANGED storeVars

\* const blob = engine.exportLearningData()
ExportLearningData ==
  /\ lastOp.op # "exportLearningData"
  /\ exported' =
       [present |-> TRUE,
        patterns |-> exportLearningData.patterns,
        live |-> [i \in 1..Len(exportLearningData.patterns) |-> TRUE],
        learningDatabase |-> exportLearningData.learningDatabase,
        abTests |-> exportLearningData.abTests]
  /\ lastOp' = [NoOp EXCEPT !.op = "exportLearningData"]
  /\ UNCHANGED << learningDatabase, patterns, weights, abTests, currentABTest,
                  nextTestId, clock, inserted, learningData, feed, storeVars >>

\* engine.importLearningData(blob)
ImportExported ==
  /\ exported.present
  /\ lastOp.op # "importLearningData"
  /\ importLearningData(
       [hasPatterns |-> TRUE, patterns |-> exported.patterns,
        hasLearningDatabase |-> TRUE,
        learningDatabase |-> exported.learningDatabase,
        hasAbTests |-> TRUE, abTests |-> exported.abTests], TRUE)
  /\ UNCHANGED storeVars

\* engine.importLearningData of a blob from elsewhere
ImportOther ==
  /\ lastOp.op # "importLearningData"
  /\ importLearningData(OneArmBlob, FALSE)
  /\ UNCHANGED storeVars

NextBackup ==
  \/ BackupOutcome
  \/ ExportLearningData
  \/ ImportExported
  \/ ImportOther
  \/ ResetLearning
SpecBackup == Init /\ [][NextBackup]_vars

\* ------------------------------------------------------------------------
\* The repetition specification: recordOutcome called again and again for
\* contexts and moods that patterns match
\* ------------------------------------------------------------------------
TuneContexts == { ctxMorning, ctxParty }
TuneMoods == { "Peaceful", "Energetic" }
TuneEngagements == { 500, 1000 }

RepeatOutcome ==
  /\ clock <= MaxTunes
  /\ \E context \in TuneContexts, appliedMood \in TuneMoods,
        engagement \in TuneEngagements, predictions \in TrainOutputs :
       recordOutcome(context, appliedMood, engagement, predictions)
  /\ UNCHANGED storeVars

NextTune == RepeatOutcome
SpecTune == Init /\ [][NextTune]_vars

\* ------------------------------------------------------------------------
\* The similarity specification: calculateContextSimilarity applied to
\* pairs of contexts
\* ------------------------------------------------------------------------
SimVisions == { NoVision, Vision(0, 0), Vision(5, 300), Vision(100, 1000) }
SimAudios == { NoAudio, Audio(300, 240, 200), Audio(800, 640, 800) }
SimContexts ==
  { Context(vision, audio, timeOfDay, dayOfWeek) :
      vision \in SimVisions, audio \in SimAudios,
      timeOfDay \in { "morning", "evening" },
      dayOfWeek \in { "weekday", "weekend" } }

\* one call on the new engine: the function reads nothing but its arguments
CompareContexts ==
  /\ lastOp.op = "new"
  /\ \E context1 \in SimContexts, context2 \in SimContexts :
       lastOp' = [NoOp EXCEPT
                    !.op = "calculateContextSimilarity",
                    !.context = context1, !.other = context2,
                    !.similarity = calculateContextSimilarity(context1, context2)]
  /\ UNCHANGED << learningDatabase, patterns, weights, abTests, currentABTest,
                  nextTestId, clock, inserted, learningData, feed, storeVars,
                  exported >>

NextSimilarity == CompareContexts
SpecSimilarity == Init /\ [][NextSimilarity]_vars

\* ------------------------------------------------------------------------
\* The statement-level specification: recordOutcome as the three updates
\* its body makes one after the other, with the calls a timer or an event
\* handler may make on the engine
\* ------------------------------------------------------------------------
\* lines 686-696: the push on the History Store and the eviction
RecordOutcomeAppend ==
  /\ Idle
  /\ clock <= MaxOutcomes
  /\ \E context \in OutcomeContexts, appliedMood \in AppliedMoods,
        engagement \in Engagements :
       LET pushed == pushOutcome(context, appliedMood, engagement)
       IN /\ learningDatabase' = EvictHistory(pushed)
          /\ inserted' = inserted + 1
          /\ lastOp' = [NoOp EXCEPT !.op = "recordOutcome",
                          !.mood = appliedMood, !.engagement = engagement,
                          !.context = context, !.pending = 2,
                          !.evicted = Len(pushed) - Len(EvictHistory(pushed))]
  /\ UNCHANGED << patterns, weights, abTests, currentABTest, nextTestId, clock,
                  learningData, feed, storeVars, exported >>

\* lines 698-706: the training step of the call in progress
RecordOutcomeTrain ==
  /\ lastOp.op = "recordOutcome"
  /\ lastOp.pending = 2
  /\ \E predictions \in TrainOutputs :
       weights' = train(weights, predictions,
                        targetOutputs(lastOp.mood, lastOp.engagement))
  /\ lastOp' = [lastOp EXCEPT !.pending = 1]
  /\ UNCHANGED << learningDatabase, patterns, abTests, currentABTest,
                  nextTestId, clock, inserted, learningData, feed, storeVars,
                  exported >>

\* lines 708-709: the pattern update of the call in progress, which ends it
RecordOutcomeUpdatePatterns ==
  /\ lastOp.op = "recordOutcome"
  /\ lastOp.pending = 1
  /\ patterns' = updatePatterns(patterns, lastOp.context, lastOp.mood,
                                lastOp.engagement, clock)
  /\ exported' =
       AliasedBlob(exported,
                   updateRelevantPatterns(patterns, lastOp.context, lastOp.mood,
                                          lastOp.engagement, clock),
                   updatePatterns(patterns, lastOp.context, lastOp.mood,
                                  lastOp.engagement, clock))
  /\ clock' = clock + 1
  /\ lastOp' = [lastOp EXCEPT !.pending = 0]
  /\ UNCHANGED << learningDatabase, weights, abTests, currentABTest,
                  nextTestId, inserted, learningData, feed, storeVars >>

IdleResetLearning == Idle /\ ResetLearning

NextSteps ==
  \/ RecordOutcomeAppend
  \/ RecordOutcomeTrain
  \/ RecordOutcomeUpdatePatterns
  \/ PredictOptimalMood
  \/ IdleResetLearning
SpecSteps == Init /\ [][NextSteps]_vars

\* ------------------------------------------------------------------------
\* The history specification: a long run of recordOutcome calls on the
\* engine, after a long run of recordMoodOutcome calls on the decision
\* engine (the two objects share no state)
\* ------------------------------------------------------------------------
\* the decision engine's run is over
LogDone == learningData # <<>> /\ Last(learningData).serial >= MaxLog

BulkRecordOutcome ==
  /\ LogDone
  /\ clock <= MaxInserts - Len(generateSampleLearningData)
  /\ recordOutcome(ctxBulk, "Peaceful", 100, << 0, 0, 0, 0, 0 >>)
  /\ UNCHANGED storeVars

BulkRecordMoodOutcome ==
  /\ ~LogDone
  /\ recordMoodOutcome(ctxBulk, "Peaceful", 100)
  /\ UNCHANGED storeVars

\* a backup restored into the newly constructed engine
RestoreBackup ==
  /\ LogDone
  /\ clock = 1
  /\ lastOp.op # "importLearningData"
  /\ importLearningData(OversizeBlob, FALSE)
  /\ UNCHANGED storeVars

NextHistory == BulkRecordOutcome \/ BulkRecordMoodOutcome \/ RestoreBackup
SpecHistory == Init /\ [][NextHistory]_vars

\* ------------------------------------------------------------------------
\* The pruning specification: a run of successful outcomes, each in a
\* context no pattern covers yet, that fills the Pattern Store to its cap
\* ------------------------------------------------------------------------
\* the k-th call of the run: for each mood and time of day, a crowd, then
\* an almost empty room, then a room in between
FillMood(k) == moodNames[((k - 1) \div 12) + 1]
FillContext(k) ==
  Context(Vision(<< 25, 2, 10 >>[((k - 1) % 3) + 1], 500), NoAudio,
          << "morning", "afternoon", "evening", "night" >>[(((k - 1) \div 3) % 4) + 1],
          "weekday")
\* the engagements observed: full while the store fills, any once it is
\* about to reach the cap
FillEngagements ==
  IF Len(patterns) < PatternCap - 1 THEN { 1000 } ELSE { 300, 850, 1000 }

FillOutcome ==
  /\ clock <= MaxFill
  /\ \E engagement \in FillEngagements :
       recordOutcome(FillContext(clock), FillMood(clock), engagement,
                     << 900, 400, 300, 200, 100 >>)
  /\ UNCHANGED storeVars

SpecPrune == Init /\ [][FillOutcome]_vars

\* ------------------------------------------------------------------------
\* The matching specification: patternMatches applied to a pattern and a
\* context
\* ------------------------------------------------------------------------
\* paths of fields a context may lack, of a field it always has, and of a
\* key it never has
MatchParameters ==
  { "vision.peopleCount", "audio.energy", "environmental.timeOfDay",
    "vision.mood" }
MatchOperators == { ">", "<", "=", "between", "contains" }
MatchValues == { NumV(15), StrV("morning"), StrV("def"), RangeV(0, 1000) }
MatchConditions ==
  { Cond(parameter, operator, value) :
      parameter \in MatchParameters, operator \in MatchOperators,
      value \in MatchValues }
MatchContexts == { ctxOffline, ctxMorning, ctxParty }

\* one call on the new engine, for a pattern of one condition or of two
MatchPattern ==
  /\ lastOp.op = "new"
  /\ \E first \in MatchConditions, context \in MatchContexts :
     \E conditions \in { << first >>,
                         << Cond("environmental.weather", "=", StrV("sunny")),
                            first >> } :
       lastOp' = [NoOp EXCEPT
                    !.op = "patternMatches", !.context = context,
                    !.conditions = conditions,
                    !.matched =
                       patternMatches([conditions |-> conditions], context)]
  /\ UNCHANGED << learningDatabase, patterns, weights, abTests, currentABTest,
                  nextTestId, clock, inserted, learningData, feed, storeVars,
                  exported >>

SpecMatch == Init /\ [][MatchPattern]_vars

\* ------------------------------------------------------------------------
\* The store's prediction actions (useMoodStore): a prediction is requested,
\* perhaps applied, and the outcome of the mood on show is recorded
\* ------------------------------------------------------------------------
\* environmentDataToContext(): vision and audio are always objects
StoreContexts == { ctxMorning, ctxParty }
StoreEngagements == { 300, 900 }

\* store.requestAIPrediction(): asks the engine and keeps the answer as
\* aiPrediction.currentPrediction; currentMood is not touched
requestAIPrediction(context, nnOutputs) ==
  LET prediction == predictOptimalMood(patterns, learningDatabase, context,
                                       nnOutputs)
  IN /\ learningDatabase' = HistoryAfterFind(learningDatabase, context)
     /\ aiPrediction' =
          [currentPrediction |->
             [present |-> TRUE, recommendedMood |-> prediction.recommendedMood,
              confidence |-> prediction.confidence]]
     /\ lastOp' = [NoOp EXCEPT !.op = "requestAIPrediction",
                     !.context = context, !.prediction = prediction]
     /\ UNCHANGED << patterns, weights, abTests, currentABTest, nextTestId,
                     clock, inserted, learningData, feed, exported, abTesting,
                     emergencyActive, timers >>

\* the dashboard's request, and the request updateEnvironmentData schedules
RequestAIPrediction ==
  /\ Idle
  /\ \E context \in StoreContexts, nnOutputs \in NNOutputs :
       requestAIPrediction(context, nnOutputs)
  /\ UNCHANGED currentMood

\* the auto-simulation subscriber: the prediction is applied only when its
\* confidence is above 0.7
AutoSimulationStep ==
  /\ Idle
  /\ \E context \in StoreContexts, nnOutputs \in NNOutputs :
       /\ requestAIPrediction(context, nnOutputs)
       /\ LET prediction == predictOptimalMood(patterns, learningDatabase,
                                               context, nnOutputs)
          IN currentMood' = IF Gt(prediction.confidence, 700)
                            THEN prediction.recommendedMood ELSE currentMood

\* store.applyAIPrediction(prediction), called by the dashboard with the
\* current prediction: updateCurrentMood(newMood)
ApplyAIPrediction ==
  /\ Idle
  /\ aiPrediction.currentPrediction.present
  /\ currentMood' = aiPrediction.currentPrediction.recommendedMood
  /\ lastOp' = [NoOp EXCEPT !.op = "applyAIPrediction",
                  !.mood = aiPrediction.currentPrediction.recommendedMood]
  /\ UNCHANGED << learningDatabase, patterns, weights, abTests, currentABTest,
                  nextTestId, clock, inserted, learningData, feed, exported,
                  abTesting, aiPrediction, emergencyActive, timers >>

\* store.recordMoodOutcome(engagement, duration, feedback): returns at once
\* without a current prediction, else calls the engine's recordOutcome with
\* the mood the current prediction recommends
StoreRecordMoodOutcome ==
  /\ Idle
  /\ clock <= MaxOutcomes
  /\ aiPrediction.currentPrediction.present
  /\ \E context \in StoreContexts, engagement \in StoreEngagements,
        predictions \in TrainOutputs :
       recordOutcome(context, aiPrediction.currentPrediction.recommendedMood,
                     engagement, predictions)
  /\ UNCHANGED storeVars

NextMood ==
  \/ RequestAIPrediction
  \/ AutoSimulationStep
  \/ ApplyAIPrediction
  \/ StoreRecordMoodOutcome
SpecMood == Init /\ [][NextMood]_vars

\* ------------------------------------------------------------------------
\* The decay specification: a mood flops again and again in a context one
\* of its patterns matches, then an A/B test is run with that mood
\* ------------------------------------------------------------------------
\* the run of poor outcomes is over
DecayDone == clock > MaxDecays

DecayOutcome ==
  /\ ~DecayDone
  /\ recordOutcome(ctxParty, "Social", 0, << 900, 400, 300, 200, 100 >>)
  /\ UNCHANGED storeVars

DecayedStartABTest == DecayDone /\ StartABTest
DecayedRecordABTestResult == DecayDone /\ RecordABTestResult

NextDecay == DecayOutcome \/ DecayedStartABTest \/ DecayedRecordABTestResult
SpecDecay == Init /\ [][NextDecay]_vars

\* ------------------------------------------------------------------------
\* The emergency specification: emergencyStop calls, the passing of time
\* (clock counts units of 10 seconds here) and the timers that come due
\* ------------------------------------------------------------------------
\* store.emergencyStop(): sets the flag and the safe mood, and schedules a
\* callback 30 s later; no pending callback is cancelled
EmergencyStop ==
  /\ clock < MaxTime
  /\ Len(timers) < MaxTimers
  /\ emergencyActive' = TRUE
  /\ currentMood' = "Safe Mode"
  /\ timers' = Append(timers, clock + EmergencyDelay)
  /\ lastOp' = [NoOp EXCEPT !.op = "emergencyStop", !.stoppedAt = clock]
  /\ UNCHANGED << learningDatabase, patterns, weights, abTests, currentABTest,
                  nextTestId, clock, inserted, learningData, feed, exported,
                  abTesting, aiPrediction >>

\* a callback scheduled by emergencyStop runs once it is due:
\* set({ emergencyActive: false })
EmergencyTimerFires ==
  \E i \in DOMAIN timers :
    /\ timers[i] <= clock
    /\ emergencyActive' = FALSE
    /\ timers' = SubSeq(timers, 1, i - 1) \o SubSeq(timers, i + 1, Len(timers))
    /\ lastOp' = [lastOp EXCEPT !.op = "emergencyTimer"]
    /\ UNCHANGED << learningDatabase, patterns, weights, abTests, currentABTest,
                    nextTestId, clock, inserted, learningData, feed, exported,
                    abTesting, aiPrediction, currentMood >>

\* time passes, by one unit; a callback that is due runs first
TimePasses ==
  /\ clock < MaxTime
  /\ \A i \in DOMAIN timers : timers[i] > clock
  /\ clock' = clock + 1
  /\ lastOp' = [lastOp EXCEPT !.op = "timePasses"]
  /\ UNCHANGED << learningDatabase, patterns, weights, abTests, currentABTest,
                  nextTestId, inserted, learningData, feed, exported,
                  storeVars >>

NextEmergency == EmergencyStop \/ EmergencyTimerFires \/ TimePasses
SpecEmergency == Init /\ [][NextEmergency]_vars

\* ------------------------------------------------------------------------
\* Properties of the A/B test controller
\* ------------------------------------------------------------------------
ResultsOf(testId, history) ==
  {i \in DOMAIN history : history[i].testId = testId}

\* C1: a recordABTestResult call for the active test appends nothing to the
\* A/B history while it is one of the first 49 calls, and the 50th call
\* completes the test: afterwards no test is active and the history holds
\* exactly one result with that test id, with sampleSize 50.
C1_AutoCompleteAt50 ==
  [][ (lastOp'.op = "recordABTestResult" /\ currentABTest.active
         /\ currentABTest.testId = lastOp'.testId)
      => IF currentABTest.sessionCount + 1 < 50
         THEN /\ abTests' = abTests
              /\ ResultsOf(currentABTest.testId, abTests') = {}
              /\ currentABTest'.active
              /\ currentABTest'.testId = currentABTest.testId
         ELSE /\ ~currentABTest'.active
              /\ Cardinality(ResultsOf(currentABTest.testId, abTests')) = 1
              /\ Last(abTests').testId = currentABTest.testId
              /\ Last(abTests').sampleSize = 50 ]_vars

C1_Witness ==
  /\ lastOp.op = "recordABTestResult"
  /\ lastOp.completed.active
  /\ ~currentABTest.active
  /\ Len(abTests) = 1
  /\ abTests[1].testId = lastOp.testId
  /\ abTests[1].sampleSize = 50

\* C2: a recordABTestResult call made while no test is active, or with an id
\* other than the active test's, does not throw and leaves the active test
\* (its sample lists and count) and the A/B history unchanged.
C2_StaleResultIsNoOp ==
  [][ (lastOp'.op = "recordABTestResult"
         /\ ~(currentABTest.active /\ currentABTest.testId = lastOp'.testId))
      => /\ ~lastOp'.threw
         /\ currentABTest' = currentABTest
         /\ abTests' = abTests
         /\ patterns' = patterns
         /\ learningDatabase' = learningDatabase ]_vars

\* a call that carries the id of a test that has already completed
C2_Witness ==
  /\ lastOp.op = "recordABTestResult"
  /\ ~lastOp.completed.active
  /\ ~currentABTest.active
  /\ Len(abTests) = 1
  /\ abTests[1].testId = lastOp.testId

\* a call that carries the id of a test that was replaced by a newer one
C2_WitnessReplaced ==
  /\ lastOp.op = "recordABTestResult"
  /\ currentABTest.active
  /\ currentABTest.testId # lastOp.testId
  /\ currentABTest.sessionCount > 0

\* C8: the confidenceLevel of every completed test is a number in [0,1], and
\* it is 0 when the test completed with both arms' mean engagement 0.
C8_ConfidenceGuarded ==
  /\ \A i \in DOMAIN abTests :
        /\ ~IsNaN(abTests[i].confidenceLevel)
        /\ abTests[i].confidenceLevel >= 0
        /\ abTests[i].confidenceLevel <= Scale
  /\ (lastOp.completed.active
        /\ Len(lastOp.completed.resultsA) > 0
        /\ Len(lastOp.completed.resultsB) > 0
        /\ Sum(lastOp.completed.resultsA) = 0
        /\ Sum(lastOp.completed.resultsB) = 0)
     => Last(abTests).confidenceLevel = 0

\* C9: a test that completes with samples in both arms and different means
\* names the arm of strictly higher mean as the winner, and its
\* engagementDiff is the absolute difference of the two means.
C9_WinnerHasHigherMean ==
  lastOp.completed.active =>
    LET t == lastOp.completed
        nA == Len(t.resultsA)
        nB == Len(t.resultsB)
        crossA == Sum(t.resultsA) * nB
        crossB == Sum(t.resultsB) * nA
        r == Last(abTests)
    IN (nA > 0 /\ nB > 0 /\ crossA # crossB)
       => /\ r.winnerMood = IF crossA > crossB THEN t.moodA ELSE t.moodB
          /\ r.engagementDiff = Abs(crossA - crossB) \div (nA * nB)

C9_Witness ==
  /\ lastOp.completed.active
  /\ Len(lastOp.completed.resultsA) > 0
  /\ Len(lastOp.completed.resultsB) > 0
  /\ lastOp.completed.moodA # lastOp.completed.moodB
  /\ Sum(lastOp.completed.resultsA) * Len(lastOp.completed.resultsB)
       > Sum(lastOp.completed.resultsB) * Len(lastOp.completed.resultsA)
  /\ Last(abTests).winnerMood = lastOp.completed.moodA
  /\ Last(abTests).engagementDiff > 0

\* C10: a startABTest call made while a test is active either is rejected,
\* leaving the active test unchanged, or first completes the previous test
\* and appends its result to the A/B history.
C10_ActiveTestNotLost ==
  [][ (lastOp'.op = "startABTest" /\ currentABTest.active)
      => \/ currentABTest' = currentABTest
         \/ /\ Len(abTests') = Len(abTests) + 1
            /\ Last(abTests').testId = currentABTest.testId
            /\ currentABTest'.active ]_vars

\* C11: completeCurrentABTest called while the store and the engine hold an
\* active test that has not reached the threshold moves that test to
\* completed: afterwards neither the store nor the engine has an active
\* test, the A/B history has grown by exactly the result computed from the
\* test's own samples, and that result is what the store files.
C11_ExplicitCompletion ==
  [][ (lastOp'.op = "completeCurrentABTest"
         /\ abTesting.currentTest.present
         /\ currentABTest.active
         /\ currentABTest.testId = abTesting.currentTest.id)
      => /\ ~abTesting'.currentTest.present
         /\ ~currentABTest'.active
         /\ abTests' = Append(abTests, ABResult(currentABTest))
         /\ Last(abTesting'.testHistory) = ABResult(currentABTest) ]_vars

\* ------------------------------------------------------------------------
\* Properties of the learning loop and of the stores
\* ------------------------------------------------------------------------
\* C3: a recordOutcome call whose applied mood is outside the vocabulary
\* signals an error and leaves the History Store, the Pattern Store and the
\* Predictor weights as they were.
C3_UnknownMoodRejected ==
  [][ (lastOp'.op = "recordOutcome" /\ lastOp'.mood \notin MoodSet)
      => /\ lastOp'.threw
         /\ learningDatabase' = learningDatabase
         /\ patterns' = patterns
         /\ weights' = weights ]_vars

\* C12: a predictOptimalMood call, or any other engine operation, starts
\* only in a state where no recordOutcome call is part-way through its
\* three updates; a recordOutcome call that has begun is continued by
\* nothing but its own next update; and once it has ended the History
\* Store holds its record.
C12_OutcomeAtomic ==
  [][ /\ lastOp.pending > 0
         => /\ lastOp'.op = "recordOutcome"
            /\ lastOp'.pending = lastOp.pending - 1
            /\ lastOp'.context = lastOp.context
      /\ lastOp'.op \in {"predictOptimalMood", "resetLearning"}
         => lastOp.pending = 0
      /\ (lastOp'.op = "recordOutcome" /\ lastOp'.pending = 0)
         => /\ Last(learningDatabase').context = lastOp'.context
            /\ Last(learningDatabase').appliedMood = lastOp'.mood
            /\ Last(learningDatabase').timestamp = clock ]_vars

\* a prediction computed right after a recordOutcome call that trained the
\* network and created a pattern
C12_Witness ==
  /\ lastOp.op = "predictOptimalMood"
  /\ learningDatabase # <<>>
  /\ Last(learningDatabase).timestamp = clock - 1
  /\ \E i \in DOMAIN weights : weights[i] # 0
  /\ \E i \in DOMAIN patterns : patterns[i].created = clock - 1

\* C13: a predictOptimalMood call leaves the History Store, the Pattern
\* Store, the Predictor, the active A/B test and the A/B history as they
\* were.
C13_PredictionIsPureRead ==
  [][ lastOp'.op = "predictOptimalMood"
      => /\ learningDatabase' = learningDatabase
         /\ patterns' = patterns
         /\ weights' = weights
         /\ currentABTest' = currentABTest
         /\ abTests' = abTests ]_vars

\* a prediction over a History Store whose third record is more similar to
\* the context than its first: sorting the sessions moves it to the front
C13_Witness ==
  /\ lastOp.op = "predictOptimalMood"
  /\ lastOp.context = ctxParty
  /\ Len(learningDatabase) >= 3
  /\ calculateContextSimilarity(ctxParty, learningDatabase[3].context)
       > calculateContextSimilarity(ctxParty, learningDatabase[1].context)
  /\ calculateContextSimilarity(ctxParty, learningDatabase[3].context) >= 800
  /\ lastOp.prediction.recommendedMood \in MoodSet

\* C14: every pattern's recommendedMood, and the moodA, moodB and winnerMood
\* of the active test and of every completed test, are moods of the
\* vocabulary.
C14_MoodsInVocabulary ==
  /\ \A i \in DOMAIN patterns : patterns[i].recommendedMood \in MoodSet
  /\ currentABTest.active
       => currentABTest.moodA \in MoodSet /\ currentABTest.moodB \in MoodSet
  /\ \A i \in DOMAIN abTests :
       /\ abTests[i].moodA \in MoodSet
       /\ abTests[i].moodB \in MoodSet
       /\ abTests[i].winnerMood \in MoodSet

\* C15: every pattern's successRate and confidence are numbers in [0,1].
C15_PatternScoresInUnit ==
  \A i \in DOMAIN patterns :
    /\ ~IsNaN(patterns[i].successRate)
    /\ patterns[i].successRate >= 0
    /\ patterns[i].successRate <= Scale
    /\ ~IsNaN(patterns[i].confidence)
    /\ patterns[i].confidence >= 0
    /\ patterns[i].confidence <= Scale

\* C16: a recordOutcome call with engagement 1.0 sets the successRate of
\* every pattern that recommends the applied mood and matches the context,
\* and whose successRate is a number in [0,1], to
\* 0.9 * successRate + 0.1 * engagement: a value not below the old one, not
\* below 0 and not above 1.0.
C16_SuccessRateClimbs ==
  [][ (lastOp'.op = "recordOutcome" /\ lastOp'.engagement = Scale)
      => \A i \in DOMAIN patterns :
           (/\ patterns[i].recommendedMood = lastOp'.mood
            /\ patternMatches(patterns[i], lastOp'.context)
            /\ ~IsNaN(patterns[i].successRate)
            /\ patterns[i].successRate >= 0
            /\ patterns[i].successRate <= Scale)
           => /\ i \in DOMAIN patterns'
              /\ SamePattern(patterns'[i], patterns[i])
              /\ patterns'[i].successRate
                   = (9 * patterns[i].successRate + Scale) \div 10
              /\ patterns'[i].successRate >= patterns[i].successRate
              /\ patterns'[i].successRate >= 0
              /\ patterns'[i].successRate <= Scale ]_vars

\* the third call in a row with engagement 1.0 for the morning pattern
C16_Witness ==
  /\ lastOp.op = "recordOutcome"
  /\ lastOp.engagement = Scale
  /\ lastOp.mood = "Peaceful"
  /\ lastOp.context = ctxMorning
  /\ patterns[1].id = "morning_calm"
  /\ patterns[1].successRate = 854
  /\ patterns[1].lastUpdated = clock - 1

\* C17: the similarity of two contexts is a number in [0,1], and the
\* similarity of a context to itself is 1.
C17_SimilarityInUnit ==
  lastOp.op = "calculateContextSimilarity"
    => /\ lastOp.similarity >= 0
       /\ lastOp.similarity <= Scale
       /\ lastOp.context = lastOp.other => lastOp.similarity = Scale

\* C18: the similarity of context1 to context2 equals the similarity of
\* context2 to context1.
C18_SimilaritySymmetric ==
  lastOp.op = "calculateContextSimilarity"
    => lastOp.similarity
         = calculateContextSimilarity(lastOp.other, lastOp.context)

\* a pair in which only the first context has vision data and both have
\* audio data
C18_Witness ==
  /\ lastOp.op = "calculateContextSimilarity"
  /\ lastOp.context.vision.present
  /\ ~lastOp.other.vision.present
  /\ lastOp.context.audio.present
  /\ lastOp.other.audio.present
  /\ lastOp.context.audio # lastOp.other.audio
  /\ lastOp.similarity > 0
  /\ lastOp.similarity
       = calculateContextSimilarity(lastOp.other, lastOp.context)

\* the records of the History Store that are similar enough to the context
SimilarRecords(context) ==
  { i \in DOMAIN learningDatabase :
      calculateContextSimilarity(context, learningDatabase[i].context) >= 800 }

\* C19: for the context of a prediction, the pattern-derived distribution
\* is 0.2 for each of the five moods when no pattern of the Pattern Store
\* matches the context, and the history-derived distribution is 0.2 for
\* each mood when fewer than 3 records of the History Store are similar
\* enough to it.
C19_UniformFallback ==
  lastOp.op = "predictOptimalMood"
    => /\ (\A i \in DOMAIN patterns : ~patternMatches(patterns[i], lastOp.context))
            => applyPatternRecognition(patterns, lastOp.context).moodProbabilities
                 = << 200, 200, 200, 200, 200 >>
       /\ Cardinality(SimilarRecords(lastOp.context)) < 3
            => applyHistoricalLearning(learningDatabase,
                                       lastOp.context).moodProbabilities
                 = << 200, 200, 200, 200, 200 >>

\* a prediction for a context that no pattern matches and that exactly two
\* records of the History Store resemble
C19_Witness ==
  /\ lastOp.op = "predictOptimalMood"
  /\ patterns # <<>>
  /\ \A i \in DOMAIN patterns : ~patternMatches(patterns[i], lastOp.context)
  /\ Cardinality(SimilarRecords(lastOp.context)) = 2
  /\ applyHistoricalLearning(learningDatabase, lastOp.context).moodProbabilities
       = << 200, 200, 200, 200, 200 >>

\* a prediction over an empty Pattern Store and an empty History Store
C19_WitnessEmptyStores ==
  /\ lastOp.op = "predictOptimalMood"
  /\ patterns = <<>>
  /\ learningDatabase = <<>>
  /\ applyPatternRecognition(patterns, lastOp.context).moodProbabilities
       = << 200, 200, 200, 200, 200 >>

C20_WitnessLearned ==
  /\ lastOp.op = "importLearningData"
  /\ lastOp.blob = "held"
  /\ Len(exported.patterns) > 3
  /\ Len(exported.abTests) = 1
  /\ Len(exported.learningDatabase) > 0
  /\ learningDatabase = exported.learningDatabase
  /\ patterns = exported.patterns
  /\ abTests = exported.abTests

\* the records of db are the n most recently inserted ones, in order
MostRecent(db, n) ==
  /\ Len(db) = n
  /\ \A i \in DOMAIN db : db[i].serial = inserted - n + i

\* C4 as stated: after cap + 50 recordOutcome calls the History Store holds
\* exactly cap records, the cap most recently inserted ones.
C4_HoldsExactlyCap ==
  (clock - 1 = 1000 + 50) => MostRecent(learningDatabase, 1000)

\* C4 as amended: every recordOutcome call leaves the History Store with at
\* most cap records, the record just inserted at its end; after cap + 50
\* recordOutcome calls it holds at least 800 records (it is cut back to
\* the 800 most recent ones each time it exceeds cap), and they are the most
\* recently inserted ones.
C4_HoldsMostRecentWithinCap ==
  /\ (lastOp.op = "recordOutcome")
       => /\ Len(learningDatabase) <= 1000
          /\ Last(learningDatabase).serial = inserted
  /\ (clock - 1 = 1000 + 50)
       => /\ Len(learningDatabase) >= 800
          /\ MostRecent(learningDatabase, Len(learningDatabase))

C4_Witness ==
  /\ clock - 1 = 1000 + 50
  /\ lastOp.op = "recordOutcome"
  /\ Len(learningDatabase) < 1000
  /\ Last(learningDatabase).serial = inserted

\* C5: the History Store never holds more than 1000 records and the Pattern
\* Store never more than 50 patterns.
C5_StoresBounded ==
  /\ Len(learningDatabase) <= 1000
  /\ Len(patterns) <= 50

\* log is what is left of the sequence before, with entry appended to it
\* and nothing but its oldest entries removed
SuffixOfAppend(log, before) ==
  /\ log # <<>>
  /\ Len(log) <= Len(before) + 1
  /\ LET full == Append(before, Last(log))
     IN log = SubSeq(full, Len(full) - Len(log) + 1, Len(full))

\* C6: appending a learning record removes nothing but the oldest records:
\* what is retained is a contiguous suffix of the sequence before with the
\* new record at its end, in insertion order, in the engine's History Store
\* and in the decision engine's log alike.
C6_EvictsOldestFirst ==
  [][ /\ lastOp'.op = "recordOutcome"
         => SuffixOfAppend(learningDatabase', learningDatabase)
      /\ lastOp'.op = "recordMoodOutcome"
         => SuffixOfAppend(learningData', learningData) ]_vars

C6_Witness ==
  /\ lastOp.op = "recordOutcome"
  /\ lastOp.evicted > 0
  /\ Len(learningDatabase) = 800
  /\ learningDatabase[1].serial = inserted - 799

C6_WitnessLog ==
  /\ lastOp.op = "recordMoodOutcome"
  /\ lastOp.evicted = 1
  /\ Len(learningData) = 100
  /\ learningData[1].serial = Last(learningData).serial - 99

\* C7: every predictOptimalMood call returns, without throwing, a
\* recommendedMood of the vocabulary and a confidence in [0,1].
C7_PredictionTotal ==
  lastOp.op = "predictOptimalMood"
    => /\ ~lastOp.threw
       /\ lastOp.prediction.recommendedMood \in MoodSet
       /\ ~IsNaN(lastOp.prediction.confidence)
       /\ lastOp.prediction.confidence >= 0
       /\ lastOp.prediction.confidence <= Scale

\* a prediction for a context without vision and audio
C7_Witness ==
  /\ lastOp.op = "predictOptimalMood"
  /\ ~lastOp.context.vision.present
  /\ ~lastOp.context.audio.present
  /\ lastOp.prediction.recommendedMood \in MoodSet
  /\ lastOp.prediction.confidence > 0

\* a prediction over a Pattern Store whose matching patterns carry NaN
C7_WitnessNaNPatterns ==
  /\ lastOp.op = "predictOptimalMood"
  /\ lastOp.context = ctxParty
  /\ \E i \in DOMAIN patterns :
       IsNaN(patterns[i].successRate) /\ patternMatches(patterns[i], ctxParty)
  /\ lastOp.prediction.recommendedMood \in MoodSet

\* ------------------------------------------------------------------------
\* Properties of pattern creation and matching
\* ------------------------------------------------------------------------
\* the pattern object a recordOutcome call made at time now creates
CreatedAt(p, now) == p.id = "learned" /\ p.created = now
\* a pattern recommending the mood matches the context
Covered(ps, context, mood) ==
  \E i \in DOMAIN ps :
    ps[i].recommendedMood = mood /\ patternMatches(ps[i], context)

\* C21 (as stated): after a recordOutcome call the Pattern Store holds a
\* pattern created by that call exactly when the engagement was above 0.8
\* and no pattern recommending the applied mood matched the context.
C21_AddsExactlyWhenUncovered ==
  [][ lastOp'.op = "recordOutcome" =>
        ( (\E i \in DOMAIN patterns' : CreatedAt(patterns'[i], clock))
          <=> ( lastOp'.engagement > 800
                /\ ~Covered(patterns, lastOp'.context, lastOp'.mood) ) ) ]_vars

\* C21 (amended): a recordOutcome call creates no pattern unless the
\* engagement was above 0.8 and no pattern recommending the applied mood
\* matched the context; in that case it appends one pattern for the applied
\* mood while the store holds fewer than 50, and at 50 it prunes the store to
\* the 40 best, which keeps the new pattern only if fewer than 40 patterns
\* have a higher success rate.
C21_CreatesWhenUncovered ==
  [][ lastOp'.op = "recordOutcome" =>
        LET wanted == /\ lastOp'.engagement > 800
                      /\ ~Covered(patterns, lastOp'.context, lastOp'.mood)
            created == {i \in DOMAIN patterns' : CreatedAt(patterns'[i], clock)}
            better == {i \in DOMAIN patterns :
                         patterns[i].successRate > lastOp'.engagement}
        IN /\ ~wanted => created = {} /\ Len(patterns') = Len(patterns)
           /\ (wanted /\ Len(patterns) < PatternCap) =>
                /\ created = { Len(patterns) + 1 }
                /\ Len(patterns') = Len(patterns) + 1
                /\ Last(patterns').recommendedMood = lastOp'.mood
                /\ Last(patterns').successRate = lastOp'.engagement
           /\ (wanted /\ Len(patterns) >= PatternCap) =>
                /\ Len(patterns') = PatternKeep
                /\ Cardinality(created) <= 1
                /\ created # {} <=> Cardinality(better) < PatternKeep ]_vars

\* C21 witness: a call with engagement above 0.8 has appended a pattern
C21_Witness ==
  /\ lastOp.op = "recordOutcome"
  /\ lastOp.engagement > 800
  /\ CreatedAt(Last(patterns), clock - 1)
  /\ Last(patterns).recommendedMood = lastOp.mood

\* a call with engagement above 0.8 in an uncovered context has pruned the
\* store, and with it the pattern it had just created
C21_WitnessPruned ==
  /\ lastOp.op = "recordOutcome"
  /\ lastOp.engagement > 800
  /\ Len(patterns) = PatternKeep
  /\ \A i \in DOMAIN patterns : ~CreatedAt(patterns[i], clock - 1)

\* C22: a pattern one of whose conditions names a path the context lacks
\* (an unknown key, or a path through a null vision or audio object) does
\* not match the context, whatever the operator of the condition, and the
\* evaluation does not throw.
C22_MissingPathNeverMatches ==
  ( /\ lastOp.op = "patternMatches"
    /\ \E i \in DOMAIN lastOp.conditions :
         getContextValue(lastOp.context, lastOp.conditions[i].parameter)
           = Undefined )
  => ~lastOp.matched /\ ~lastOp.threw

\* ------------------------------------------------------------------------
\* Properties of the store
\* ------------------------------------------------------------------------
\* C23: every record the store's recordMoodOutcome appends to the History
\* Store carries as appliedMood the store's currentMood, the mood on show
\* while the outcome was observed.
C23_RecordsMoodOnShow ==
  [][ ( /\ lastOp'.op = "recordOutcome"
        /\ aiPrediction.currentPrediction.present
        /\ inserted' = inserted + 1 )
      => Last(learningDatabase').appliedMood = currentMood ]_vars

\* ------------------------------------------------------------------------
\* Further properties of the A/B test controller
\* ------------------------------------------------------------------------
\* C24: the winnerMood of a completed test is the mood of an arm that
\* received at least one sample.
C24_WinnerHasSamples ==
  ( lastOp.op = "recordABTestResult" /\ lastOp.completed.active )
  => LET test == lastOp.completed
         winner == Last(abTests).winnerMood
     IN \/ winner = test.moodA /\ test.resultsA # <<>>
        \/ winner = test.moodB /\ test.resultsB # <<>>

\* C25: the sessionCount of the active test is the number of samples filed
\* in its two arms, a call whose mood is neither arm leaves the test as it
\* was, and the sampleSize of a completed test is the number of its samples.
C25_SessionCountIsSampleCount ==
  /\ currentABTest.active =>
       currentABTest.sessionCount
         = Len(currentABTest.resultsA) + Len(currentABTest.resultsB)
  /\ ( lastOp.op = "recordABTestResult" /\ lastOp.completed.active ) =>
       Last(abTests).sampleSize
         = Len(lastOp.completed.resultsA) + Len(lastOp.completed.resultsB)

\* C27: once resetLearning has been called, a recordABTestResult call with
\* the id of a test started before the reset changes neither the engine's
\* active test nor its A/B history; here for the call that follows the reset.
C27_ResetEndsActiveTest ==
  [][ ( lastOp.op = "resetLearning" /\ lastOp'.op = "recordABTestResult" )
      => /\ ~currentABTest.active
         /\ currentABTest' = currentABTest
         /\ abTests' = abTests ]_vars

\* C26: whenever the store reports an active test, the engine has an active
\* test with the same id and the same sessionCount; so once the engine has
\* auto-completed the test, the store no longer reports it as active.
C26_StoreTestIsEngineTest ==
  ( abTesting.currentTest.present /\ abTesting.currentTest.isActive )
  => /\ currentABTest.active
     /\ currentABTest.testId = abTesting.currentTest.id
     /\ currentABTest.sessionCount = abTesting.currentTest.sessionCount

\* ------------------------------------------------------------------------
\* Further properties of export
\* ------------------------------------------------------------------------
\* C28: the blob a caller holds from exportLearningData is a snapshot: a
\* later recordOutcome call, or a recordABTestResult call that completes a
\* test, changes none of its patterns, records and results.
C28_ExportIsSnapshot ==
  [][ ( exported.present
        /\ lastOp'.op \in { "recordOutcome", "recordABTestResult" } )
      => /\ exported'.patterns = exported.patterns
         /\ exported'.learningDatabase = exported.learningDatabase
         /\ exported'.abTests = exported.abTests ]_vars

\* ------------------------------------------------------------------------
\* Further properties of pattern adjustment
\* ------------------------------------------------------------------------
\* C30: the completion of a test does not increase the successRate of a
\* pattern that recommends the loser mood, and decreases neither the
\* successRate nor the confidence of a pattern that recommends the winner
\* mood (a value that is not a number counts as neither).
C30_AdjustsInTheRightDirection ==
  [][ ( lastOp'.op = "recordABTestResult" /\ lastOp'.completed.active ) =>
        LET result == Last(abTests')
            loser == IF result.winnerMood = result.moodA THEN result.moodB
                     ELSE result.moodA
        IN \A i \in DOMAIN patterns :
             /\ patterns[i].recommendedMood = loser =>
                  ~Gt(patterns'[i].successRate, patterns[i].successRate)
             /\ patterns[i].recommendedMood = result.winnerMood =>
                  /\ ~Gt(patterns[i].successRate, patterns'[i].successRate)
                  /\ ~Gt(patterns[i].confidence, patterns'[i].confidence) ]_vars

\* ------------------------------------------------------------------------
\* Properties of the emergency stop
\* ------------------------------------------------------------------------
\* C29: from an emergencyStop call until 30 s after the most recent such
\* call, emergencyActive is true: the timer of an earlier call does not
\* clear a later emergency.
C29_EmergencyHeldForDelay ==
  ( lastOp.stoppedAt > 0 /\ clock < lastOp.stoppedAt + EmergencyDelay )
  => emergencyActive

====
